---- MODULE Spec2Model ----
(***************************************************************************)
(* A model of the analytical core of gmb: the OIWP engine (oiwp.py), the   *)
(* keeper eligibility engine (keeper.py) and the schedule-swap simulator   *)
(* (called from app.py).  Each engine has its own specification over the   *)
(* shared variables; the variables of the other engines stay idle.         *)
(*                                                                         *)
(* Floating point values (wp, oiwp, luck) are kept as exact fractions      *)
(* <<numerator, denominator>> with a positive denominator.                 *)
(***************************************************************************)
EXTENDS Integers, Sequences, FiniteSets, TLC

VARIABLES
    matchups_df,          \* the matchup ledger: a sequence of records (rows)
    pc,                   \* position inside the running engine
    current_week,         \* oiwp.py: max(scored_weeks)
    total_teams,          \* oiwp.py: number of distinct team names
    team_dict,            \* oiwp.py: team name -> TeamOIWP counters
    week,                 \* oiwp.py: loop variable of the OIWP loop
    results_df,           \* oiwp.py: the returned table (sequence of rows)
    warnings,             \* oiwp.py: warnings emitted by the validator
    draft_history,        \* keeper.py: per year (newest first) the draft picks
    transaction_history,  \* keeper.py: per year (newest first) the transactions
    eligibility,          \* keeper.py: what analyze_player returned last
    swap_results,         \* schedule-swap simulator: the returned rows
    projected_standings,  \* standings projector: the running, then the seeded, table
    calls,                \* what the calls made so far on the loaded inputs returned
    data                  \* espn.py: the schedule of the API response (data["schedule"])

vars == <<matchups_df, pc, current_week, total_teams, team_dict, week,
          results_df, warnings, draft_history, transaction_history,
          eligibility, swap_results, projected_standings, calls, data>>

oiwpVars == <<current_week, total_teams, team_dict, week, results_df, warnings>>
keeperVars == <<draft_history, transaction_history, eligibility>>
simVars == <<swap_results, projected_standings>>

-----------------------------------------------------------------------------
(* Bounds of the model *)

\* league team ids, week numbers and score levels the ledger is drawn from
Teams == {1, 2, 3}
Weeks == {1, 2}
Points == {0, 1, 2}
\* number of games (two mirrored records each) a ledger holds at most
MaxGames == 2

-----------------------------------------------------------------------------
(* Generic helpers *)

Max(S) == CHOOSE x \in S : \A y \in S : y <= x
Min(S) == CHOOSE x \in S : \A y \in S : x <= y
Abs(x) == IF x < 0 THEN -x ELSE x

RECURSIVE SumSeq(_)
SumSeq(s) == IF s = <<>> THEN 0 ELSE Head(s) + SumSeq(Tail(s))

RECURSIVE SumOver(_, _)
SumOver(f, S) ==
    IF S = {} THEN 0
    ELSE LET x == CHOOSE y \in S : TRUE IN f[x] + SumOver(f, S \ {x})

\* exact fractions <<n, d>>, d > 0
Frac(n, d) == <<n, d>>
FracSub(a, b) == <<a[1] * b[2] - b[1] * a[2], a[2] * b[2]>>
FracAdd(a, b) == <<a[1] * b[2] + b[1] * a[2], a[2] * b[2]>>
FracLt(a, b) == a[1] * b[2] < b[1] * a[2]
FracLe(a, b) == a[1] * b[2] <= b[1] * a[2]
FracEq(a, b) == a[1] * b[2] = b[1] * a[2]

RECURSIVE FracSum(_)
FracSum(s) == IF s = <<>> THEN Frac(0, 1) ELSE FracAdd(Head(s), FracSum(Tail(s)))

-----------------------------------------------------------------------------
(* espn.py: matchup records *)

MatchupRecord(w, t, p, o, q) ==
    [week |-> w, team_name |-> t, points |-> p,
     opponent_name |-> o, opponent_points |-> q]

\* a variant of GameRecords whose second record does not swap the two scores
GameRecords_Unswapped(w, away, ap, home, hp) ==
    << MatchupRecord(w, away, ap, home, hp), MatchupRecord(w, home, ap, away, hp) >>

\* the two records _extract_matchups appends for one game: away first, then home
GameRecords(w, away, ap, home, hp) ==
    << MatchupRecord(w, away, ap, home, hp), MatchupRecord(w, home, hp, away, ap) >>

-----------------------------------------------------------------------------
(* oiwp.py: TeamOIWP *)

TeamOIWP(wins, losses, oiwins) == [wins |-> wins, losses |-> losses, oiwins |-> oiwins]

\* TeamOIWP.wp: wins / current_week
Wp(t, cw) == Frac(t.wins, cw)

\* TeamOIWP.oiwp: oiwins / ((total_teams - 1) * current_week), 0.0 when that is 0
Oiwp(t, cw, tt) ==
    LET total_possible_wins == (tt - 1) * cw
    IN  IF total_possible_wins > 0 THEN Frac(t.oiwins, total_possible_wins)
        ELSE Frac(0, 1)

\* TeamOIWP.luck: wp - oiwp
Luck(t, cw, tt) == FracSub(Wp(t, cw), Oiwp(t, cw, tt))

\* a variant of RoundHalfEven that rounds every fraction up
RoundHalfEven_Up(n, d) == IF n % d = 0 THEN n \div d ELSE (n \div d) + 1

\* Python's round() of the non-negative fraction n/d: nearest integer, halves to even
RoundHalfEven(n, d) ==
    LET q == n \div d
        r == n % d
    IN  IF 2 * r < d THEN q
        ELSE IF 2 * r > d THEN q + 1
        ELSE IF q % 2 = 0 THEN q ELSE q + 1

\* the predicted wins of TeamOIWP.predicted_record / schedule_wins
PredictedWins(t, cw, tt) ==
    LET games_played == t.wins + t.losses
        o == Oiwp(t, cw, tt)
    IN  RoundHalfEven(o[1] * games_played, o[2])

-----------------------------------------------------------------------------
(* oiwp.py: calculate_oiwp_stats *)

Rows(df) == DOMAIN df

\* a variant of ScoredWeeks that takes the week of every record
ScoredWeeks_AnyRecord(df) == { df[i].week : i \in Rows(df) }

\* matchups_df[matchups_df["points"] > 0]["week"].unique()
ScoredWeeks(df) == { df[i].week : i \in { j \in Rows(df) : df[j].points > 0 } }

\* matchups_df["team_name"].unique(): the distinct names in order of appearance
RECURSIVE UniqueTeams(_)
UniqueTeams(df) ==
    IF df = <<>> THEN <<>>
    ELSE LET front == UniqueTeams(SubSeq(df, 1, Len(df) - 1))
             name == df[Len(df)].team_name
         IN  IF \E i \in DOMAIN front : front[i] = name THEN front
             ELSE Append(front, name)

TeamSet(df) == { df[i].team_name : i \in Rows(df) }

\* lines 180-184: a record with points > opponent_points is a win of its team,
\* one with points < opponent_points a loss; every record of the table counts
ActualWins(df, t) ==
    Cardinality({ i \in Rows(df) : df[i].team_name = t /\ df[i].points > df[i].opponent_points })

ActualLosses(df, t) ==
    Cardinality({ i \in Rows(df) : df[i].team_name = t /\ df[i].points < df[i].opponent_points })

\* a variant of WeekScores that keeps the last record of a team instead of the first
WeekScores_LastRecord(df, w) ==
    LET rows == { i \in Rows(df) : df[i].week = w }
        names == { df[i].team_name : i \in rows }
    IN  [ t \in names |-> df[Max({ i \in rows : df[i].team_name = t })].points ]

\* lines 189-192: week_scores keeps, per team, the points of its first record of the week
WeekScores(df, w) ==
    LET rows == { i \in Rows(df) : df[i].week = w }
        names == { df[i].team_name : i \in rows }
    IN  [ t \in names |-> df[Min({ i \in rows : df[i].team_name = t })].points ]

\* a variant of WeekWins in which an equal score counts as a win
WeekWins_TiesWin(ws, t) ==
    Cardinality({ u \in DOMAIN ws : u /= t /\ ws[t] >= ws[u] })

\* lines 196-200: the number of other teams of week_scores with a lower score
WeekWins(ws, t) ==
    Cardinality({ u \in DOMAIN ws : u /= t /\ ws[t] > ws[u] })

\* lines 204-216: the row built for one team
ResultRow(name, t, cw, tt) ==
    [team_name |-> name,
     wins |-> t.wins,
     losses |-> t.losses,
     predicted_wins |-> PredictedWins(t, cw, tt),
     predicted_losses |-> (t.wins + t.losses) - PredictedWins(t, cw, tt),
     wp |-> Wp(t, cw),
     oiwp |-> Oiwp(t, cw, tt),
     luck |-> Luck(t, cw, tt),
     schedule_wins |-> t.wins - PredictedWins(t, cw, tt)]

\* the rows in team_dict order (insertion order: order of first appearance)
UnsortedResults(df, td, cw, tt) ==
    LET names == UniqueTeams(df)
    IN  [ i \in DOMAIN names |-> ResultRow(names[i], td[names[i]], cw, tt) ]

\* a variant of SortedByOiwp that sorts in ascending order
SortedByOiwp_Ascending(rows) ==
    LET n == Len(rows)
        perms == { f \in [1..n -> 1..n] : \A i, j \in 1..n : i /= j => f[i] /= f[j] }
    IN  { [ i \in 1..n |-> rows[f[i]] ] : f \in
            { g \in perms : \A i \in 1..n : i < n => FracLe(rows[g[i]].oiwp, rows[g[i + 1]].oiwp) } }

\* line 218: sort_values("oiwp", ascending=False).  The sort is not stable, so
\* every arrangement of the rows with non-increasing oiwp is a possible outcome.
SortedByOiwp(rows) ==
    LET n == Len(rows)
        perms == { f \in [1..n -> 1..n] : \A i, j \in 1..n : i /= j => f[i] /= f[j] }
    IN  { [ i \in 1..n |-> rows[f[i]] ] : f \in
            { g \in perms : \A i \in 1..n : i < n => FracLe(rows[g[i + 1]].oiwp, rows[g[i]].oiwp) } }

-----------------------------------------------------------------------------
(* oiwp.py: _validate_oiwp_results *)

Column(df, col) == [ i \in DOMAIN df |-> df[i][col] ]

\* (df[col] < lo).any() or (df[col] > hi).any()
OutOfRange(df, col, lo, hi) ==
    \E i \in DOMAIN df : FracLt(df[i][col], Frac(lo, 1)) \/ FracLt(Frac(hi, 1), df[i][col])

\* a variant of MeanOff that tests the sum of the column instead of its mean
MeanOff_OfSum(df, col) ==
    LET s == FracSum(Column(df, col))
    IN  Abs(100 * (2 * s[1] - s[2])) > 2 * s[2]

\* abs(df[col].mean() - 0.500) > margin, margin = 0.01
MeanOff(df, col) ==
    LET s == FracSum(Column(df, col))
        n == Len(df)
    IN  \* | s[1] / (s[2] * n) - 1/2 | > 1/100
        Abs(100 * (2 * s[1] - s[2] * n)) > 2 * s[2] * n

\* abs(df["luck"].sum()) > margin * len(df)
LuckSumOff(df) ==
    LET s == FracSum(Column(df, "luck"))
    IN  100 * Abs(s[1]) > Len(df) * s[2]

\* a variant of ValidateOiwpResults that stops at the first failing check
ValidateOiwpResults_FirstOnly(df) ==
    IF df = <<>> THEN {}
    ELSE IF OutOfRange(df, "wp", 0, 1) THEN {"Invalid WP values"}
    ELSE IF OutOfRange(df, "oiwp", 0, 1) THEN {"Invalid OIWP values"}
    ELSE IF OutOfRange(df, "luck", -1, 1) THEN {"Invalid luck values"}
    ELSE IF MeanOff(df, "wp") THEN {"Mean WP"}
    ELSE IF MeanOff(df, "oiwp") THEN {"Mean OIWP"}
    ELSE IF LuckSumOff(df) THEN {"Sum of luck"}
    ELSE {}

\* _validate_oiwp_results: six checks, each with its own warnings.warn
ValidateOiwpResults(df) ==
    IF df = <<>> THEN {}
    ELSE  (IF OutOfRange(df, "wp", 0, 1) THEN {"Invalid WP values"} ELSE {})
     \cup (IF OutOfRange(df, "oiwp", 0, 1) THEN {"Invalid OIWP values"} ELSE {})
     \cup (IF OutOfRange(df, "luck", -1, 1) THEN {"Invalid luck values"} ELSE {})
     \cup (IF MeanOff(df, "wp") THEN {"Mean WP"} ELSE {})
     \cup (IF MeanOff(df, "oiwp") THEN {"Mean OIWP"} ELSE {})
     \cup (IF LuckSumOff(df) THEN {"Sum of luck"} ELSE {})

-----------------------------------------------------------------------------
(* The OIWP engine as a state machine *)

NoEligibility == [status |-> "none"]

\* one completed call: the function, its arguments and what it returned
CallRecord(fn, args, result) == [fn |-> fn, args |-> args, result |-> result]

\* the table and the warnings a call of calculate_oiwp_stats produced
OiwpOutcome(table, warned) == [results_df |-> table, warnings |-> warned]

InitOIWP ==
    /\ matchups_df = <<>>
    /\ pc = "load"
    /\ current_week = 0
    /\ total_teams = 0
    /\ team_dict = <<>>
    /\ week = 0
    /\ results_df = <<>>
    /\ warnings = {}
    /\ draft_history = <<>>
    /\ transaction_history = <<>>
    /\ eligibility = NoEligibility
    /\ swap_results = <<>>
    /\ projected_standings = <<>>
    /\ calls = <<>>
    /\ data = <<>>

\* espn.py _extract_matchups / get_matchups: one game of week w adds its two
\* mirrored records; get_matchups fetches the weeks in ascending order
ExtractGame(w, away, ap, home, hp) ==
    /\ pc = "load"
    /\ calls = <<>>
    /\ Len(matchups_df) + 2 <= 2 * MaxGames
    /\ away < home
    /\ matchups_df /= <<>> => matchups_df[Len(matchups_df)].week <= w
    /\ matchups_df' = matchups_df \o GameRecords(w, away, ap, home, hp)
    /\ UNCHANGED <<pc, oiwpVars, keeperVars, simVars, calls, data>>

\* calculate_oiwp_stats, lines 165-168: no scored week, the empty table is returned
OiwpReturnEmpty ==
    /\ pc = "load"
    /\ ScoredWeeks(matchups_df) = {}
    /\ pc' = "done"
    /\ results_df' = <<>>
    /\ warnings' = {}
    /\ calls' = Append(calls, CallRecord("calculate_oiwp_stats", matchups_df,
                                         OiwpOutcome(results_df', warnings')))
    /\ UNCHANGED <<matchups_df, current_week, total_teams, team_dict, week,
                   keeperVars, simVars, data>>

\* calculate_oiwp_stats, lines 170-184: current_week, total_teams, one TeamOIWP
\* per team, then the actual wins and losses of every record
\* a variant of OiwpStart in which the TeamOIWP objects of an earlier call are
\* used again instead of new ones
OiwpStart_KeepsTeamDict ==
    /\ pc = "load"
    /\ ScoredWeeks(matchups_df) /= {}
    /\ current_week' = Max(ScoredWeeks(matchups_df))
    /\ total_teams' = Cardinality(TeamSet(matchups_df))
    /\ team_dict' = [ t \in TeamSet(matchups_df) |->
                        IF t \in DOMAIN team_dict
                        THEN [team_dict[t] EXCEPT
                                 !.wins = @ + ActualWins(matchups_df, t),
                                 !.losses = @ + ActualLosses(matchups_df, t)]
                        ELSE TeamOIWP(ActualWins(matchups_df, t), ActualLosses(matchups_df, t), 0) ]
    /\ week' = 1
    /\ pc' = "oiwp"
    /\ UNCHANGED <<matchups_df, results_df, warnings, keeperVars, simVars, calls, data>>

OiwpStart ==
    /\ pc = "load"
    /\ ScoredWeeks(matchups_df) /= {}
    /\ current_week' = Max(ScoredWeeks(matchups_df))
    /\ total_teams' = Cardinality(TeamSet(matchups_df))
    /\ team_dict' = [ t \in TeamSet(matchups_df) |->
                        TeamOIWP(ActualWins(matchups_df, t), ActualLosses(matchups_df, t), 0) ]
    /\ week' = 1
    /\ pc' = "oiwp"
    /\ UNCHANGED <<matchups_df, results_df, warnings, keeperVars, simVars, calls, data>>

\* calculate_oiwp_stats, lines 187-201: one iteration of the loop over the weeks
OiwpWeek ==
    /\ pc = "oiwp"
    /\ week <= current_week
    /\ LET week_scores == WeekScores(matchups_df, week)
       IN  team_dict' = [ t \in DOMAIN team_dict |->
                            IF t \in DOMAIN week_scores
                            THEN [team_dict[t] EXCEPT !.oiwins = @ + WeekWins(week_scores, t)]
                            ELSE team_dict[t] ]
    /\ week' = week + 1
    /\ UNCHANGED <<matchups_df, pc, current_week, total_teams, results_df, warnings,
                   keeperVars, simVars, calls, data>>

\* calculate_oiwp_stats, lines 203-223: the result table, sorted, validated, returned
OiwpFinish ==
    /\ pc = "oiwp"
    /\ week > current_week
    /\ results_df' \in SortedByOiwp(UnsortedResults(matchups_df, team_dict, current_week, total_teams))
    /\ warnings' = ValidateOiwpResults(results_df')
    /\ pc' = "done"
    /\ calls' = Append(calls, CallRecord("calculate_oiwp_stats", matchups_df,
                                         OiwpOutcome(results_df', warnings')))
    /\ UNCHANGED <<matchups_df, current_week, total_teams, team_dict, week,
                   keeperVars, simVars, data>>

NextOIWP ==
    \/ \E w \in Weeks, away \in Teams, home \in Teams, ap \in Points, hp \in Points :
          ExtractGame(w, away, ap, home, hp)
    \/ OiwpReturnEmpty
    \/ OiwpStart
    \/ OiwpWeek
    \/ OiwpFinish

SpecOIWP == InitOIWP /\ [][NextOIWP]_vars

-----------------------------------------------------------------------------
(* Properties of the OIWP engine *)

Returned == pc = "done" /\ results_df /= <<>>

InUnit(f) == FracLe(Frac(0, 1), f) /\ FracLe(f, Frac(1, 1))

\* C1: every row of the table returned for a ledger with a scored week has
\* 0 <= wp <= 1, 0 <= oiwp <= 1 and -1 <= luck <= 1.
C1_OiwpBounds ==
    Returned =>
        \A i \in DOMAIN results_df :
            /\ InUnit(results_df[i].wp)
            /\ InUnit(results_df[i].oiwp)
            /\ FracLe(Frac(-1, 1), results_df[i].luck)
            /\ FracLe(results_df[i].luck, Frac(1, 1))

\* the opponent-independent wins one iteration of the week loop credits in total
CreditedThisWeek ==
    SumOver([ t \in DOMAIN team_dict |-> team_dict'[t].oiwins - team_dict[t].oiwins ],
            DOMAIN team_dict)

\* the week being processed has a score of every team of the league
FullWeek(w) == DOMAIN WeekScores(matchups_df, w) = TeamSet(matchups_df)

\* the pairs of teams whose scores of the week are equal
TiedPairs(ws) ==
    { p \in SUBSET (DOMAIN ws) :
        Cardinality(p) = 2 /\ \A t, u \in p : ws[t] = ws[u] }

MirrorInvariant(df) ==
    \A i \in Rows(df) : \E j \in Rows(df) :
        /\ df[j].week = df[i].week
        /\ df[j].team_name = df[i].opponent_name
        /\ df[j].opponent_name = df[i].team_name
        /\ df[j].points = df[i].opponent_points
        /\ df[j].opponent_points = df[i].points

\* every team of the ledger has exactly one record in each week 1..cw, and no
\* record lies outside these weeks
OneRecordPerTeamAndWeek(df, cw) ==
    /\ \A i \in Rows(df) : df[i].week \in 1..cw
    /\ \A t \in TeamSet(df), w \in 1..cw :
          Cardinality({ i \in Rows(df) : df[i].team_name = t /\ df[i].week = w }) = 1

\* C3: for a ledger with the mirror-record invariant the returned table has
\* mean(wp) and mean(oiwp) within 0.01 of 0.5 and |sum(luck)| within
\* 0.01 * team_count, and the validator emits no warning.  It is stated here for
\* the ledgers in which, besides, every team has exactly one record in every week.
C3_NoWarningOnMirrorLedger ==
    (/\ Returned
     /\ MirrorInvariant(matchups_df)
     /\ OneRecordPerTeamAndWeek(matchups_df, current_week)) =>
        /\ ~MeanOff(results_df, "wp")
        /\ ~MeanOff(results_df, "oiwp")
        /\ ~LuckSumOff(results_df)
        /\ warnings = {}

\* the first score a team has in a week
HasScore(df, t, w) == \E i \in Rows(df) : df[i].week = w /\ df[i].team_name = t
FirstScore(df, t, w) ==
    df[CHOOSE i \in Rows(df) :
          /\ df[i].week = w /\ df[i].team_name = t
          /\ \A j \in Rows(df) : (df[j].week = w /\ df[j].team_name = t) => i <= j].points

\* the (week, other team) pairs in which t's score is strictly higher
BeatenPairs(df, t, cw) ==
    { p \in (1..cw) \X (TeamSet(df) \ {t}) :
        /\ HasScore(df, t, p[1])
        /\ HasScore(df, p[2], p[1])
        /\ FirstScore(df, p[2], p[1]) < FirstScore(df, t, p[1]) }

\* C4: a team's oiwp_wins is the number of (week, other team) pairs, weeks
\* 1..current_week, in which the other team's first score of the week is strictly
\* lower than the team's first score; oiwp = oiwp_wins / ((total_teams-1)*current_week).
C4_OiwpWins ==
    Returned =>
        /\ \A t \in DOMAIN team_dict :
              team_dict[t].oiwins = Cardinality(BeatenPairs(matchups_df, t, current_week))
        /\ \A i \in DOMAIN results_df :
              LET t == results_df[i].team_name
              IN  FracEq(results_df[i].oiwp,
                         Frac(Cardinality(BeatenPairs(matchups_df, t, current_week)),
                              (total_teams - 1) * current_week))

\* C4 witness: a table was returned for a ledger in which a team has two records
\* with different points in one week, two teams are tied in a week and some team
\* has been credited a win.
C4_Witness ==
    /\ Returned
    /\ \E i, j \in Rows(matchups_df) :
          /\ i < j
          /\ matchups_df[i].week = matchups_df[j].week
          /\ matchups_df[i].team_name = matchups_df[j].team_name
          /\ matchups_df[i].points /= matchups_df[j].points
    /\ \E w \in 1..current_week : TiedPairs(WeekScores(matchups_df, w)) /= {}
    /\ \E t \in DOMAIN team_dict : team_dict[t].oiwins > 0

-----------------------------------------------------------------------------
(* keeper_constants.py *)

\* years 1, 2, 3 of keeping add 5, 10, 15 to the draft cost
KEEPER_YEAR_INCREMENTS == <<5, 10, 15>>
MAX_KEEP_YEARS == 3
GO_BACK_YEARS == 3
MS_IN_DAY == 1000 * 60 * 60 * 24
DROP_TO_PICKUP == 7 * MS_IN_DAY

-----------------------------------------------------------------------------
(* Bounds of the keeper model *)

\* the analysed players; the draft costs (auction budgets have no upper limit,
\* app.py 563-565); the transaction times (ms since the start of the season); the transaction types (every type other than
\* ADD and WAIVER takes the branches of _did_clear_waivers that DROP takes)
Players == {"P", "Q"}
Costs == {10, 990}
Timestamps == {0, DROP_TO_PICKUP + 1}
TransactionTypes == {"ADD", "DROP", "WAIVER"}
\* draft picks and transactions the histories hold at most, all years together
MaxRecords == 3

-----------------------------------------------------------------------------
(* keeper.py: KeeperAnalyzer *)

\* an absent cost (None) is the empty sequence, a cost c the sequence <<c>>
None == <<>>
Some(c) == <<c>>

DraftPick(name, keeper, cost) == [player_name |-> name, keeper |-> keeper, cost |-> cost]
Transaction(name, type, ts) == [player_name |-> name, type |-> type, timestamp |-> ts]

\* df[df["player_name"] == player_name]
OfPlayer(df, name) == SelectSeq(df, LAMBDA r : r.player_name = name)

\* lines 97-107: per year, whether the player was drafted, whether the pick was a
\* keeper pick, and what it cost; the first pick of the year decides
DraftedHistory(dh, name) == [ i \in DOMAIN dh |-> OfPlayer(dh[i], name) /= <<>> ]

\* a variant of KeptHistory that takes the first pick of the year, whoever it is
KeptHistory_AnyPick(dh, name) ==
    [ i \in DOMAIN dh |-> IF dh[i] /= <<>> THEN dh[i][1].keeper ELSE FALSE ]

KeptHistory(dh, name) ==
    [ i \in DOMAIN dh |->
        IF OfPlayer(dh[i], name) /= <<>> THEN OfPlayer(dh[i], name)[1].keeper ELSE FALSE ]

DraftCosts(dh, name) ==
    [ i \in DOMAIN dh |->
        IF OfPlayer(dh[i], name) /= <<>> THEN Some(OfPlayer(dh[i], name)[1].cost) ELSE None ]

\* line 113: sort_values("timestamp", ascending=False); the sort is not stable,
\* so every arrangement with non-increasing timestamps is a possible outcome
SortedNewestFirst(trans) ==
    LET n == Len(trans)
        perms == { f \in [1..n -> 1..n] : \A i, j \in 1..n : i /= j => f[i] /= f[j] }
    IN  { [ i \in 1..n |-> trans[f[i]] ] : f \in
            { g \in perms : \A i \in 1..n :
                i < n => trans[g[i]].timestamp >= trans[g[i + 1]].timestamp } }

\* a variant of ClearedFrom that counts a gap of exactly the waiver window
RECURSIVE ClearedFrom_AtLeastWindow(_, _)
ClearedFrom_AtLeastWindow(transactions, i) ==
    IF i > Len(transactions) THEN FALSE
    ELSE IF transactions[i].type = "ADD" THEN TRUE
    ELSE IF /\ transactions[i].type = "WAIVER"
            /\ i + 1 <= Len(transactions)
            /\ transactions[i].timestamp - transactions[i + 1].timestamp >= DROP_TO_PICKUP
         THEN TRUE
    ELSE ClearedFrom_AtLeastWindow(transactions, i + 1)

\* _did_clear_waivers, lines 170-186, from row i on
RECURSIVE ClearedFrom(_, _)
ClearedFrom(transactions, i) ==
    IF i > Len(transactions) THEN FALSE
    ELSE IF transactions[i].type = "ADD" THEN TRUE
    ELSE IF /\ transactions[i].type = "WAIVER"
            /\ i + 1 <= Len(transactions)
            /\ transactions[i].timestamp - transactions[i + 1].timestamp > DROP_TO_PICKUP
         THEN TRUE
    ELSE ClearedFrom(transactions, i + 1)

\* _did_clear_waivers
DidClearWaivers(transactions) ==
    IF Len(transactions) = 0 THEN FALSE ELSE ClearedFrom(transactions, 1)

\* lines 110-116: the possible cleared_waivers lists (one choice of sorted order per year)
ClearedWaiversChoices(th, name) ==
    { cw \in [DOMAIN th -> BOOLEAN] :
        \A i \in DOMAIN th :
            \E sorted \in SortedNewestFirst(OfPlayer(th[i], name)) :
                cw[i] = DidClearWaivers(sorted) }

\* a variant of the walk that skips a year that is not kept instead of stopping
RECURSIVE YearsKeptFrom_NoBreak(_, _, _)
YearsKeptFrom_NoBreak(kept_history, cleared_waivers, i) ==
    IF i > GO_BACK_YEARS THEN 0
    ELSE (IF kept_history[i] /\ ~cleared_waivers[i] THEN 1 ELSE 0)
           + YearsKeptFrom_NoBreak(kept_history, cleared_waivers, i + 1)

\* lines 119-124: the walk over the years, newest first, from year i on
RECURSIVE YearsKeptFrom(_, _, _)
YearsKeptFrom(kept_history, cleared_waivers, i) ==
    IF i > GO_BACK_YEARS THEN 0
    ELSE IF kept_history[i] /\ ~cleared_waivers[i]
         THEN 1 + YearsKeptFrom(kept_history, cleared_waivers, i + 1)
         ELSE 0

\* the walk reads kept_history[i], and cleared_waivers[i] when kept_history[i]
\* is true: a list that is too short raises IndexError
RECURSIVE WalkRaises(_, _, _)
WalkRaises(kept_history, cleared_waivers, i) ==
    IF i > GO_BACK_YEARS THEN FALSE
    ELSE IF i > Len(kept_history) THEN TRUE
    ELSE IF ~kept_history[i] THEN FALSE
    ELSE IF i > Len(cleared_waivers) THEN TRUE
    ELSE IF cleared_waivers[i] THEN FALSE
    ELSE WalkRaises(kept_history, cleared_waivers, i + 1)

\* a variant of Increment that looks up years_kept instead of years_kept + 1
Increment_OffByOne(next_year_num) ==
    IF next_year_num - 1 \in DOMAIN KEEPER_YEAR_INCREMENTS
    THEN KEEPER_YEAR_INCREMENTS[next_year_num - 1]
    ELSE KEEPER_YEAR_INCREMENTS[MAX_KEEP_YEARS]

\* lines 134-137: KEEPER_YEAR_INCREMENTS.get(next_year_num, KEEPER_YEAR_INCREMENTS[MAX_KEEP_YEARS])
Increment(next_year_num) ==
    IF next_year_num \in DOMAIN KEEPER_YEAR_INCREMENTS
    THEN KEEPER_YEAR_INCREMENTS[next_year_num]
    ELSE KEEPER_YEAR_INCREMENTS[MAX_KEEP_YEARS]

\* a variant of CurrentCost without the sentinel of the ineligible player
CurrentCost_NoSentinel(eligible, years_kept, draft_costs) ==
    LET last_cost == IF draft_costs[1] /= None THEN draft_costs[1][1] ELSE 0
    IN  last_cost + Increment(years_kept + 1)

\* a variant of CurrentCost that starts from the oldest recorded draft cost (the
\* original cost) instead of the newest year's
CurrentCost_OriginalCost(eligible, years_kept, draft_costs) ==
    IF ~eligible THEN 999
    ELSE LET drafted == { i \in DOMAIN draft_costs : draft_costs[i] /= None }
             last_cost == IF drafted /= {} THEN draft_costs[Max(drafted)][1] ELSE 0
         IN  last_cost + Increment(years_kept + 1)

\* lines 129-141: 999 when not eligible, else the newest year's draft cost (0 when
\* there is none) plus the increment of the next keeper year
CurrentCost(eligible, years_kept, draft_costs) ==
    IF ~eligible THEN 999
    ELSE LET last_cost == IF draft_costs[1] /= None THEN draft_costs[1][1] ELSE 0
         IN  last_cost + Increment(years_kept + 1)

\* a variant of AnalyzePlayer in which a player without years remaining is still
\* eligible, so that the increment is looked up for a fourth keeper year
AnalyzePlayer_EligibleAtZero(dh, cleared_waivers, player_name, team_name, position) ==
    LET drafted_history == DraftedHistory(dh, player_name)
        kept_history == KeptHistory(dh, player_name)
        draft_costs == DraftCosts(dh, player_name)
        years_kept == YearsKeptFrom(kept_history, cleared_waivers, 1)
        years_remaining == MAX_KEEP_YEARS - years_kept
        eligible == years_remaining >= 0
    IN  IF WalkRaises(kept_history, cleared_waivers, 1)
        THEN [status |-> "IndexError"]
        ELSE [status |-> "returned",
              player_name |-> player_name,
              team_name |-> team_name,
              position |-> position,
              years_kept |-> years_kept,
              years_remaining |-> years_remaining,
              eligible |-> eligible,
              current_cost |-> CurrentCost(eligible, years_kept, draft_costs),
              last_cost |-> draft_costs[1],
              drafted_history |-> drafted_history,
              kept_history |-> kept_history,
              cleared_waivers |-> cleared_waivers]

\* analyze_player, given the cleared_waivers list
AnalyzePlayer(dh, cleared_waivers, player_name, team_name, position) ==
    LET drafted_history == DraftedHistory(dh, player_name)
        kept_history == KeptHistory(dh, player_name)
        draft_costs == DraftCosts(dh, player_name)
        years_kept == YearsKeptFrom(kept_history, cleared_waivers, 1)
        years_remaining == MAX_KEEP_YEARS - years_kept
        eligible == years_remaining > 0
    IN  IF WalkRaises(kept_history, cleared_waivers, 1)
        THEN [status |-> "IndexError"]
        ELSE [status |-> "returned",
              player_name |-> player_name,
              team_name |-> team_name,
              position |-> position,
              years_kept |-> years_kept,
              years_remaining |-> years_remaining,
              eligible |-> eligible,
              current_cost |-> CurrentCost(eligible, years_kept, draft_costs),
              last_cost |-> draft_costs[1],
              drafted_history |-> drafted_history,
              kept_history |-> kept_history,
              cleared_waivers |-> cleared_waivers]

-----------------------------------------------------------------------------
(* The keeper engine as a state machine *)

NumRecords ==
    SumSeq([ i \in DOMAIN draft_history |-> Len(draft_history[i]) ])
      + SumSeq([ i \in DOMAIN transaction_history |-> Len(transaction_history[i]) ])

\* cli.py keepers / app.py load_keeper_data: one table per analysed year, newest first
InitKeeper ==
    /\ draft_history = [ i \in 1..GO_BACK_YEARS |-> <<>> ]
    /\ transaction_history = [ i \in 1..GO_BACK_YEARS |-> <<>> ]
    /\ eligibility = NoEligibility
    /\ pc = "load"
    /\ matchups_df = <<>>
    /\ current_week = 0
    /\ total_teams = 0
    /\ team_dict = <<>>
    /\ week = 0
    /\ results_df = <<>>
    /\ warnings = {}
    /\ swap_results = <<>>
    /\ projected_standings = <<>>
    /\ calls = <<>>
    /\ data = <<>>

\* the picks of player Q only serve as rows of another player
PickOptions(name) ==
    IF name = "P" THEN { DraftPick(name, k, c) : k \in BOOLEAN, c \in Costs }
    ELSE { DraftPick(name, TRUE, 990) }

TransactionOptions(name) ==
    IF name = "P" THEN { Transaction(name, ty, ts) : ty \in TransactionTypes, ts \in Timestamps }
    ELSE { Transaction(name, "ADD", 0) }

\* espn_keeper.py get_draft_picks: a pick of year i (1 = newest) is loaded
LoadDraftPick(i, pick) ==
    /\ pc = "load"
    /\ calls = <<>>
    /\ NumRecords < MaxRecords
    /\ draft_history' = [draft_history EXCEPT ![i] = Append(@, pick)]
    /\ UNCHANGED <<transaction_history, eligibility, pc, matchups_df, oiwpVars, simVars, calls, data>>

\* espn_keeper.py get_transactions: a transaction of year i (1 = newest) is loaded
LoadTransaction(i, tr) ==
    /\ pc = "load"
    /\ calls = <<>>
    /\ NumRecords < MaxRecords
    /\ transaction_history' = [transaction_history EXCEPT ![i] = Append(@, tr)]
    /\ UNCHANGED <<draft_history, eligibility, pc, matchups_df, oiwpVars, simVars, calls, data>>

\* KeeperAnalyzer.analyze_player
AnalyzePlayerCall(player_name) ==
    /\ pc = "load"
    /\ \E cleared_waivers \in ClearedWaiversChoices(transaction_history, player_name) :
          eligibility' = AnalyzePlayer(draft_history, cleared_waivers, player_name, "Team", "QB")
    /\ pc' = "analyzed"
    /\ calls' = Append(calls, CallRecord("analyze_player", player_name, eligibility'))
    /\ UNCHANGED <<draft_history, transaction_history, matchups_df, oiwpVars, simVars, data>>

NextKeeper ==
    \/ \E i \in 1..GO_BACK_YEARS, name \in Players : \E pick \in PickOptions(name) :
          LoadDraftPick(i, pick)
    \/ \E i \in 1..GO_BACK_YEARS, name \in Players : \E tr \in TransactionOptions(name) :
          LoadTransaction(i, tr)
    \/ \E name \in Players : AnalyzePlayerCall(name)

SpecKeeper == InitKeeper /\ [][NextKeeper]_vars

-----------------------------------------------------------------------------
(* Properties of the keeper engine *)

Analyzed == pc = "analyzed" /\ eligibility.status = "returned"

NoWaiverClears(e) == \A i \in DOMAIN e.cleared_waivers : ~e.cleared_waivers[i]

\* the length of the longest newest-first prefix of years that are kept and not
\* cleared by waivers
StreakPrefix(e) ==
    Max({ n \in 0..GO_BACK_YEARS :
            \A i \in 1..n : e.kept_history[i] /\ ~e.cleared_waivers[i] })

\* C5: years_kept is the length of the longest newest-first prefix of years with
\* kept_history true and cleared_waivers false; kept_history = [true, false, true]
\* without waiver clears gives years_kept = 1.
C5_ContiguousStreak ==
    Analyzed =>
        /\ eligibility.years_kept = StreakPrefix(eligibility)
        /\ (eligibility.kept_history = <<TRUE, FALSE, TRUE>> /\ NoWaiverClears(eligibility))
              => eligibility.years_kept = 1

\* C5 witness: a player with kept_history = [true, false, true] and no waiver
\* clears has been analysed.
C5_Witness ==
    /\ Analyzed
    /\ eligibility.kept_history = <<TRUE, FALSE, TRUE>>
    /\ NoWaiverClears(eligibility)
    /\ eligibility.years_kept = 1

\* C6: years_remaining = MAX_KEEP_YEARS - years_kept, eligible = (years_remaining > 0),
\* and current_cost is 999 whenever eligible is false.
C6_EligibilityInvariant ==
    Analyzed =>
        /\ eligibility.years_remaining = MAX_KEEP_YEARS - eligibility.years_kept
        /\ eligibility.eligible = (eligibility.years_remaining > 0)
        /\ ~eligibility.eligible => eligibility.current_cost = 999

\* C6 witness: a player kept in all three years has been analysed and is not eligible.
C6_Witness ==
    /\ Analyzed
    /\ eligibility.years_kept = 3
    /\ eligibility.years_remaining = 0
    /\ ~eligibility.eligible

\* the cost of the first pick of the player in the newest year's draft, 0 without one
NewestDraftCost(name) ==
    LET picks == { j \in DOMAIN draft_history[1] : draft_history[1][j].player_name = name }
    IN  IF picks = {} THEN 0 ELSE draft_history[1][Min(picks)].cost

C8_CostMonotone ==
    (Analyzed /\ eligibility.years_kept \in 1..2) =>
        \A k \in (eligibility.years_kept + 1)..MAX_KEEP_YEARS :
            eligibility.current_cost <
                CurrentCost(MAX_KEEP_YEARS - k > 0, k,
                            DraftCosts(draft_history, eligibility.player_name))

\* the scenario of C9: kept_history = [false, true, false], no waiver clears, no
\* draft record in the newest year, drafted at cost 10 in the oldest year
C9_Scenario ==
    /\ Analyzed
    /\ eligibility.kept_history = <<FALSE, TRUE, FALSE>>
    /\ NoWaiverClears(eligibility)
    /\ ~eligibility.drafted_history[1]
    /\ DraftCosts(draft_history, eligibility.player_name)[GO_BACK_YEARS] = Some(10)

-----------------------------------------------------------------------------
(* The schedule-swap simulator (calculate_schedule_swap_records, called at      *)
(* app.py line 1124; its body is not part of the sources at hand and is modelled *)
(* from section 4.4 (a) of the specification)                                   *)

HasRecord(df, t, w) == \E i \in Rows(df) : df[i].week = w /\ df[i].team_name = t
RecordOf(df, t, w) == df[CHOOSE i \in Rows(df) : df[i].week = w /\ df[i].team_name = t]

\* the weekly schedule map: the opponent a team faced in a week, and a team's score
ScheduleOpponent(df, t, w) == RecordOf(df, t, w).opponent_name
WeekScore(df, t, w) == RecordOf(df, t, w).points

\* the weeks in which team x can be compared on the schedule of team y: x has a
\* score, y has an opponent, and that opponent has a score
ComparedWeeks(df, x, y) ==
    { w \in { df[i].week : i \in Rows(df) } :
        /\ HasRecord(df, x, w)
        /\ HasRecord(df, y, w)
        /\ HasRecord(df, ScheduleOpponent(df, y, w), w) }

\* wins of x on the schedule of y; a tie counts 0.5 for both sides (kept in halves)
SwapWins(df, x, y) ==
    LET weeks == ComparedWeeks(df, x, y)
        opp(w) == WeekScore(df, ScheduleOpponent(df, y, w), w)
    IN  Frac(2 * Cardinality({ w \in weeks : WeekScore(df, x, w) > opp(w) })
               + Cardinality({ w \in weeks : WeekScore(df, x, w) = opp(w) }), 2)

\* a variant of SwapLosses in which a tie is not counted as half a loss
SwapLosses_TiesNotLost(df, x, y) ==
    LET weeks == ComparedWeeks(df, x, y)
        opp(w) == WeekScore(df, ScheduleOpponent(df, y, w), w)
    IN  Frac(2 * Cardinality({ w \in weeks : WeekScore(df, x, w) < opp(w) }), 2)

\* losses of x on the schedule of y
SwapLosses(df, x, y) ==
    LET weeks == ComparedWeeks(df, x, y)
        opp(w) == WeekScore(df, ScheduleOpponent(df, y, w), w)
    IN  Frac(2 * Cardinality({ w \in weeks : WeekScore(df, x, w) < opp(w) })
               + Cardinality({ w \in weeks : WeekScore(df, x, w) = opp(w) }), 2)

\* win_pct = wins / (wins + losses) * 100, 0 when no week was compared
WinPct(wins, losses) ==
    IF wins[1] + losses[1] = 0 THEN Frac(0, 1)
    ELSE Frac(100 * wins[1], wins[1] + losses[1])

\* the result row of the pair (team, schedule source)
SwapRow(df, x, y) ==
    [team |-> x,
     schedule_from |-> y,
     wins |-> SwapWins(df, x, y),
     losses |-> SwapLosses(df, x, y),
     win_pct |-> WinPct(SwapWins(df, x, y), SwapLosses(df, x, y)),
     is_actual |-> (x = y),
     actual_wins |-> SwapWins(df, x, x),
     actual_losses |-> SwapLosses(df, x, x)]

CalculateScheduleSwapRecords(df) ==
    { SwapRow(df, x, y) : x \in TeamSet(df), y \in TeamSet(df) }

\* a game of the weekly schedule: a team has one opponent per week
ScheduleGame(w, away, ap, home, hp) ==
    /\ pc = "load"
    /\ Len(matchups_df) + 2 <= 2 * MaxGames
    /\ away < home
    /\ matchups_df /= <<>> => matchups_df[Len(matchups_df)].week <= w
    /\ ~HasRecord(matchups_df, away, w)
    /\ ~HasRecord(matchups_df, home, w)
    /\ matchups_df' = matchups_df \o GameRecords(w, away, ap, home, hp)
    /\ UNCHANGED <<pc, oiwpVars, keeperVars, simVars, calls, data>>

\* app.py line 1124: swap_results = dashboard.calculate_schedule_swap_records(...)
ScheduleSwap ==
    /\ pc = "load"
    /\ matchups_df /= <<>>
    /\ swap_results' = CalculateScheduleSwapRecords(matchups_df)
    /\ pc' = "swapped"
    /\ UNCHANGED <<matchups_df, oiwpVars, keeperVars, projected_standings, calls, data>>

InitSwap == InitOIWP

\* the league of the simulator has four teams, so that two games fit in one week
\* and a team meets opponents of another team that are not itself
SwapTeams == Teams \cup {4}

NextSwap ==
    \/ \E w \in Weeks, away \in SwapTeams, home \in SwapTeams, ap \in Points, hp \in Points :
          ScheduleGame(w, away, ap, home, hp)
    \/ ScheduleSwap

SpecSwap == InitSwap /\ [][NextSwap]_vars

-----------------------------------------------------------------------------
(* Properties of the schedule-swap simulator *)

\* a team's real record, from its own ledger records: a record with more points
\* than opponent_points is a win, with fewer a loss, a tie half of each
OwnWins(df, x) ==
    Frac(2 * Cardinality({ i \in Rows(df) : df[i].team_name = x /\ df[i].points > df[i].opponent_points })
           + Cardinality({ i \in Rows(df) : df[i].team_name = x /\ df[i].points = df[i].opponent_points }), 2)

OwnLosses(df, x) ==
    Frac(2 * Cardinality({ i \in Rows(df) : df[i].team_name = x /\ df[i].points < df[i].opponent_points })
           + Cardinality({ i \in Rows(df) : df[i].team_name = x /\ df[i].points = df[i].opponent_points }), 2)

-----------------------------------------------------------------------------
(* Repeated calls of calculate_oiwp_stats on one ledger *)

\* calls made at most on the loaded inputs
MaxCalls == 3

\* the caller calls calculate_oiwp_stats again with the ledger it holds
OiwpCallAgain ==
    /\ pc = "done"
    /\ Len(calls) < MaxCalls
    /\ pc' = "load"
    /\ UNCHANGED <<matchups_df, oiwpVars, keeperVars, simVars, calls, data>>

NextOIWPRepeat ==
    \/ NextOIWP
    \/ OiwpCallAgain

SpecOIWPRepeat == InitOIWP /\ [][NextOIWPRepeat]_vars

OiwpCalls == { i \in DOMAIN calls : calls[i].fn = "calculate_oiwp_stats" }

\* a ledger without rows, or without a record that has points > 0
NothingScored(df) == \A i \in Rows(df) : ~(df[i].points > 0)

\* C11: every call of calculate_oiwp_stats on a ledger with no rows, or with no
\* record having points > 0, returns the empty table and emits no warning; two
\* calls on such a ledger return equal empty tables.
C11_EmptyLedger ==
    /\ \A i \in OiwpCalls :
          NothingScored(calls[i].args) => calls[i].result = OiwpOutcome(<<>>, {})
    /\ \A i, j \in OiwpCalls :
          (NothingScored(calls[i].args) /\ calls[j].args = calls[i].args)
              => calls[j].result.results_df = calls[i].result.results_df

\* C11 witness: calculate_oiwp_stats has returned twice on a ledger that has
\* records, none of them with points > 0.
C11_Witness ==
    /\ pc = "done"
    /\ Len(calls) = 2
    /\ matchups_df /= <<>>
    /\ NothingScored(matchups_df)
    /\ calls[1].result.results_df = <<>>
    /\ calls[2].result.results_df = <<>>

-----------------------------------------------------------------------------
(* oiwp.py: the properties of one TeamOIWP object, read for any counters *)

\* wins, losses and opponent-independent wins are counted up to this value
MaxCount == 2

\* what reading a property gives: a value, or the exception it raises
Value(v) == [status |-> "ok", value |-> v]
ZeroDivisionError == [status |-> "ZeroDivisionError"]

\* TeamOIWP.wp: self._wins / self._current_week, a division of two ints
WpProperty(t, cw) == IF cw = 0 THEN ZeroDivisionError ELSE Value(Wp(t, cw))

\* TeamOIWP.oiwp: guarded by total_possible_wins > 0
OiwpProperty(t, cw, tt) == Value(Oiwp(t, cw, tt))

\* TeamOIWP.luck: self.wp - self.oiwp
LuckProperty(t, cw, tt) ==
    IF WpProperty(t, cw) = ZeroDivisionError THEN ZeroDivisionError
    ELSE Value(Luck(t, cw, tt))

\* TeamOIWP.predicted_record: the pair (predicted_wins, predicted_losses)
PredictedRecordProperty(t, cw, tt) ==
    Value(<<PredictedWins(t, cw, tt), (t.wins + t.losses) - PredictedWins(t, cw, tt)>>)

\* TeamOIWP.schedule_wins
ScheduleWinsProperty(t, cw, tt) == Value(t.wins - PredictedWins(t, cw, tt))

Metrics(t, cw, tt) ==
    [wp |-> WpProperty(t, cw),
     oiwp |-> OiwpProperty(t, cw, tt),
     luck |-> LuckProperty(t, cw, tt),
     predicted_record |-> PredictedRecordProperty(t, cw, tt),
     schedule_wins |-> ScheduleWinsProperty(t, cw, tt)]

\* TeamOIWP(name, current_week, total_teams): all counters start at 0
InitTeamOIWP ==
    /\ pc = "team"
    /\ current_week \in {0} \cup Weeks
    /\ total_teams \in 0..Cardinality(Teams)
    /\ team_dict = [ t \in {1} |-> TeamOIWP(0, 0, 0) ]
    /\ matchups_df = <<>>
    /\ week = 0
    /\ results_df = <<>>
    /\ warnings = {}
    /\ draft_history = <<>>
    /\ transaction_history = <<>>
    /\ eligibility = NoEligibility
    /\ swap_results = <<>>
    /\ projected_standings = <<>>
    /\ calls = <<>>
    /\ data = <<>>

\* TeamOIWP.add_win
AddWin ==
    /\ pc = "team"
    /\ team_dict[1].wins < MaxCount
    /\ team_dict' = [team_dict EXCEPT ![1].wins = @ + 1]
    /\ UNCHANGED <<matchups_df, pc, current_week, total_teams, week, results_df, warnings,
                   keeperVars, simVars, calls, data>>

\* TeamOIWP.add_loss
AddLoss ==
    /\ pc = "team"
    /\ team_dict[1].losses < MaxCount
    /\ team_dict' = [team_dict EXCEPT ![1].losses = @ + 1]
    /\ UNCHANGED <<matchups_df, pc, current_week, total_teams, week, results_df, warnings,
                   keeperVars, simVars, calls, data>>

\* TeamOIWP.add_oiwins(week_wins)
AddOiwins(week_wins) ==
    /\ pc = "team"
    /\ team_dict[1].oiwins + week_wins <= MaxCount
    /\ team_dict' = [team_dict EXCEPT ![1].oiwins = @ + week_wins]
    /\ UNCHANGED <<matchups_df, pc, current_week, total_teams, week, results_df, warnings,
                   keeperVars, simVars, calls, data>>

\* the five derived properties of the object are read
ReadMetrics ==
    /\ pc = "team"
    /\ results_df' = << Metrics(team_dict[1], current_week, total_teams) >>
    /\ pc' = "metrics"
    /\ UNCHANGED <<matchups_df, current_week, total_teams, team_dict, week, warnings,
                   keeperVars, simVars, calls, data>>

NextTeamOIWP ==
    \/ AddWin
    \/ AddLoss
    \/ \E week_wins \in 1..MaxCount : AddOiwins(week_wins)
    \/ ReadMetrics

SpecTeamOIWP == InitTeamOIWP /\ [][NextTeamOIWP]_vars

GamesPlayed(t) == t.wins + t.losses

\* C12: for a TeamOIWP with current_week = 0 or with zero games played no derived
\* metric raises a division-by-zero error; with current_week = 0, wp, oiwp and
\* luck are 0, and with zero games played predicted_record is 0-0 and
\* schedule_wins is 0.
C12_ZeroDefaults ==
    (pc = "metrics" /\ (current_week = 0 \/ GamesPlayed(team_dict[1]) = 0)) =>
        LET m == results_df[1]
        IN  /\ \A f \in DOMAIN m : m[f].status = "ok"
            /\ current_week = 0 =>
                  /\ FracEq(m.wp.value, Frac(0, 1))
                  /\ FracEq(m.oiwp.value, Frac(0, 1))
                  /\ FracEq(m.luck.value, Frac(0, 1))
            /\ GamesPlayed(team_dict[1]) = 0 =>
                  /\ m.predicted_record.value = <<0, 0>>
                  /\ m.schedule_wins.value = 0

-----------------------------------------------------------------------------
(* keeper.py: analyze_roster, and analyzers built from any number of years *)

\* KeeperEligibility.to_dict: current_cost becomes keeper_cost, the position id is
\* kept as position_id, and zip() pairs the three history lists up to the length
\* of the shortest (the position name of position_map is left out)
ToDict(e) ==
    [player_name |-> e.player_name,
     team_name |-> e.team_name,
     position_id |-> e.position,
     years_kept |-> e.years_kept,
     years_remaining |-> e.years_remaining,
     eligible |-> e.eligible,
     keeper_cost |-> e.current_cost,
     last_cost |-> e.last_cost,
     history |-> [ i \in 1..Min({Len(e.drafted_history), Len(e.kept_history),
                                 Len(e.cleared_waivers)}) |->
                     <<e.drafted_history[i], e.kept_history[i], e.cleared_waivers[i]>> ]]

\* a roster row
RosterEntry(name, position) == [name |-> name, position |-> position]

\* the rosters analysed: no player, one player, or both
Rosters ==
    { <<>>,
      << RosterEntry("P", "QB") >>,
      << RosterEntry("Q", "RB"), RosterEntry("P", "QB") >> }

\* what analyze_player can return for one roster row
PlayerOutcomes(dh, th, player, team_name) ==
    { AnalyzePlayer(dh, cleared_waivers, player.name, team_name, player.position) :
        cleared_waivers \in ClearedWaiversChoices(th, player.name) }

\* a variant of RosterEligibilities that collects the rows in reverse order
RECURSIVE RosterEligibilities_Reversed(_, _, _, _)
RosterEligibilities_Reversed(dh, th, roster, team_name) ==
    IF roster = <<>> THEN { <<>> }
    ELSE { rest \o <<e>> :
             e \in PlayerOutcomes(dh, th, Head(roster), team_name),
             rest \in RosterEligibilities_Reversed(dh, th, Tail(roster), team_name) }

\* the loop of analyze_roster: the eligibilities of the rows, in roster order
RECURSIVE RosterEligibilities(_, _, _, _)
RosterEligibilities(dh, th, roster, team_name) ==
    IF roster = <<>> THEN { <<>> }
    ELSE { <<e>> \o rest :
             e \in PlayerOutcomes(dh, th, Head(roster), team_name),
             rest \in RosterEligibilities(dh, th, Tail(roster), team_name) }

\* analyze_roster: the table of to_dict rows; an exception raised by
\* analyze_player for some row leaves analyze_roster
AnalyzeRoster(dh, th, roster, team_name) ==
    { IF \E i \in DOMAIN es : es[i].status = "IndexError"
      THEN [status |-> "IndexError"]
      ELSE [status |-> "returned", rows |-> [ i \in DOMAIN es |-> ToDict(es[i]) ]] :
        es \in RosterEligibilities(dh, th, roster, team_name) }

\* KeeperAnalyzer(draft_history, transaction_history): the constructor takes two
\* lists of any lengths and checks nothing
InitKeeperYears ==
    /\ draft_history \in { [ i \in 1..n |-> <<>> ] : n \in 0..GO_BACK_YEARS }
    /\ transaction_history \in { [ i \in 1..n |-> <<>> ] : n \in 0..GO_BACK_YEARS }
    /\ eligibility = NoEligibility
    /\ pc = "load"
    /\ matchups_df = <<>>
    /\ current_week = 0
    /\ total_teams = 0
    /\ team_dict = <<>>
    /\ week = 0
    /\ results_df = <<>>
    /\ warnings = {}
    /\ swap_results = <<>>
    /\ projected_standings = <<>>
    /\ calls = <<>>
    /\ data = <<>>

\* KeeperAnalyzer.analyze_roster
AnalyzeRosterCall(roster) ==
    /\ pc = "load"
    /\ eligibility' \in AnalyzeRoster(draft_history, transaction_history, roster, "Team")
    /\ pc' = "analyzed"
    /\ calls' = Append(calls, CallRecord("analyze_roster", roster, eligibility'))
    /\ UNCHANGED <<draft_history, transaction_history, matchups_df, oiwpVars, simVars, data>>

NextKeeperYears ==
    \/ \E i \in DOMAIN draft_history : \E pick \in PickOptions("P") : LoadDraftPick(i, pick)
    \/ \E i \in DOMAIN transaction_history : \E tr \in TransactionOptions("P") :
          LoadTransaction(i, tr)
    \/ \E name \in Players : AnalyzePlayerCall(name)
    \/ \E roster \in Rosters : AnalyzeRosterCall(roster)

SpecKeeperYears == InitKeeperYears /\ [][NextKeeperYears]_vars

LastCall == calls[Len(calls)]

\* C13: analyze_roster on an empty roster returns an empty table, and an analyzer
\* constructed with no draft history analyses any roster without raising.
C13_EmptyInputs ==
    (pc = "analyzed" /\ LastCall.fn = "analyze_roster") =>
        /\ LastCall.args = <<>> => eligibility = [status |-> "returned", rows |-> <<>>]
        /\ draft_history = <<>> => eligibility.status = "returned"

\* C14: when draft_history and transaction_history hold different numbers of
\* years, analyze_player raises for every player instead of returning a record.
C14_MismatchRaises ==
    (/\ pc = "analyzed"
     /\ LastCall.fn = "analyze_player"
     /\ Len(draft_history) /= Len(transaction_history)) =>
        eligibility.status /= "returned"

-----------------------------------------------------------------------------
(* Properties of the keeper engine: players without draft records *)

\* no draft of the analysed years has a pick of the player
NeverDrafted(name) ==
    \A i \in DOMAIN draft_history : \A j \in DOMAIN draft_history[i] :
        draft_history[i][j].player_name /= name

\* C15: a player with no draft record in any analysed year is analysed without
\* error as never drafted: drafted_history and kept_history all false,
\* years_kept = 0, eligible, last_cost null and current_cost = 0 + 5.
C15_NeverDrafted ==
    (pc = "analyzed" /\ NeverDrafted(LastCall.args)) =>
        /\ eligibility.status = "returned"
        /\ eligibility.drafted_history = <<FALSE, FALSE, FALSE>>
        /\ eligibility.kept_history = <<FALSE, FALSE, FALSE>>
        /\ eligibility.years_kept = 0
        /\ eligibility.eligible
        /\ eligibility.last_cost = None
        /\ eligibility.current_cost = 5

\* C15 witness: player P, who has a transaction but no draft record, has been
\* analysed with a draft that holds a keeper pick of another player.
C15_Witness ==
    /\ Analyzed
    /\ eligibility.player_name = "P"
    /\ NeverDrafted("P")
    /\ \E i \in DOMAIN draft_history : draft_history[i] /= <<>>
    /\ \E i \in DOMAIN transaction_history : transaction_history[i] /= <<>>
    /\ eligibility.current_cost = 5

-----------------------------------------------------------------------------
(* Properties of the OIWP engine: the validator and the shape of the table *)

\* C16: the validator is non-blocking: each of its six checks that fails on the
\* returned table has produced its own warning and no other warning exists,
\* whatever the other checks found; calculate_oiwp_stats has returned, and the
\* table is the complete sorted table, one row per team, as built before the
\* validator ran.
C16_NonBlocking ==
    (pc = "done" /\ results_df /= <<>>) =>
        /\ ("Invalid WP values" \in warnings) <=> OutOfRange(results_df, "wp", 0, 1)
        /\ ("Invalid OIWP values" \in warnings) <=> OutOfRange(results_df, "oiwp", 0, 1)
        /\ ("Invalid luck values" \in warnings) <=> OutOfRange(results_df, "luck", -1, 1)
        /\ ("Mean WP" \in warnings) <=> MeanOff(results_df, "wp")
        /\ ("Mean OIWP" \in warnings) <=> MeanOff(results_df, "oiwp")
        /\ ("Sum of luck" \in warnings) <=> LuckSumOff(results_df)
        /\ results_df \in SortedByOiwp(UnsortedResults(matchups_df, team_dict,
                                                       current_week, total_teams))
        /\ LastCall.result = OiwpOutcome(results_df, warnings)

\* C16 witness: a table was returned on which a range check and a mean check
\* failed together, and both warnings were produced.
C16_Witness ==
    /\ Returned
    /\ OutOfRange(results_df, "wp", 0, 1)
    /\ MeanOff(results_df, "wp")
    /\ {"Invalid WP values", "Mean WP"} \subseteq warnings
    /\ Len(results_df) = total_teams

\* C17: the returned table has exactly one row per distinct team name of the
\* ledger, and its rows are in non-increasing order of oiwp.
C17_OneRowPerTeamSorted ==
    Returned =>
        /\ Len(results_df) = Cardinality(TeamSet(matchups_df))
        /\ { results_df[i].team_name : i \in DOMAIN results_df } = TeamSet(matchups_df)
        /\ \A i, j \in DOMAIN results_df :
              i < j => FracLe(results_df[j].oiwp, results_df[i].oiwp)

\* C17 witness: a table of three teams was returned whose first row has a higher
\* oiwp than its last row and is not the team that appears first in the ledger,
\* which has several records of that team.
C17_Witness ==
    /\ Returned
    /\ Len(results_df) = 3
    /\ FracLt(results_df[3].oiwp, results_df[1].oiwp)
    /\ results_df[1].team_name /= matchups_df[1].team_name
    /\ Cardinality({ i \in Rows(matchups_df) :
                       matchups_df[i].team_name = matchups_df[1].team_name }) > 1

-----------------------------------------------------------------------------
(* The standings projector (calculate_standings_with_scenarios, called at      *)
(* app.py line 1443; its body is not part of the sources at hand and is         *)
(* modelled from section 4.4 (b) of the specification)                          *)

\* hypothetical games processed at most
MaxScenarioGames == 2

\* the actual (wins, losses, points_for) a team can have at the last completed week
ActualRecords ==
    { [wins |-> 0, losses |-> 1, points_for |-> 1],
      [wins |-> 1, losses |-> 0, points_for |-> 2] }

\* one row of the projected standings; wins and losses are kept as fractions
\* because a tie may be split into half a win and half a loss
StandingRow(name, wins, losses, points, seed) ==
    [team_name |-> name, projected_wins |-> wins, projected_losses |-> losses,
     projected_points |-> points, seed |-> seed]

\* a variant of AfterGame that awards the win and never the loss
AfterGame_WinnerOnly(row, mine, theirs, split) ==
    LET won == IF mine > theirs THEN Frac(2, 2) ELSE Frac(0, 2)
    IN  StandingRow(row.team_name,
                    Frac(row.projected_wins[1] + won[1], 2),
                    row.projected_losses,
                    row.projected_points + mine,
                    row.seed)

\* the outcome of one hypothetical matchup for the team that scored mine against
\* theirs; a tie adds nothing or, when split, half a win and half a loss
AfterGame(row, mine, theirs, split) ==
    LET won  == IF mine > theirs THEN Frac(2, 2)
                ELSE IF mine = theirs /\ split THEN Frac(1, 2) ELSE Frac(0, 2)
        lost == IF mine < theirs THEN Frac(2, 2)
                ELSE IF mine = theirs /\ split THEN Frac(1, 2) ELSE Frac(0, 2)
    IN  StandingRow(row.team_name,
                    Frac(row.projected_wins[1] + won[1], 2),
                    Frac(row.projected_losses[1] + lost[1], 2),
                    row.projected_points + mine,
                    row.seed)

\* a variant of RanksBefore that ranks by points first and by wins second
RanksBefore_PointsFirst(a, b) ==
    \/ b.projected_points < a.projected_points
    \/ /\ a.projected_points = b.projected_points
       /\ FracLt(b.projected_wins, a.projected_wins)

\* row a ranks before row b: more wins, or equal wins and more points
RanksBefore(a, b) ==
    \/ FracLt(b.projected_wins, a.projected_wins)
    \/ /\ FracEq(a.projected_wins, b.projected_wins)
       /\ b.projected_points < a.projected_points

\* the rankings by (wins descending, points_for descending): every arrangement of
\* the teams in which no team stands behind one it ranks before; teams equal in
\* both keys may stand in either order
Rankings(standings) ==
    LET n == Cardinality(DOMAIN standings)
    IN  { f \in [1..n -> DOMAIN standings] :
            /\ \A i, j \in 1..n : i /= j => f[i] /= f[j]
            /\ \A i, j \in 1..n : i < j => ~RanksBefore(standings[f[j]], standings[f[i]]) }

\* the seeded table: the rows in ranking order with seed numbers 1..N
Seeded(standings, ranking) ==
    [ i \in DOMAIN ranking |->
        [standings[ranking[i]] EXCEPT !.seed = i] ]

\* the actual standings through the last completed week
InitProjector ==
    /\ projected_standings \in
          { [ t \in Teams |-> StandingRow(t, Frac(2 * a[t].wins, 2), Frac(2 * a[t].losses, 2),
                                          a[t].points_for, 0) ] :
              a \in [Teams -> ActualRecords] }
    /\ pc = "project"
    /\ week = 0
    /\ matchups_df = <<>>
    /\ current_week = 0
    /\ total_teams = 0
    /\ team_dict = <<>>
    /\ results_df = <<>>
    /\ warnings = {}
    /\ draft_history = <<>>
    /\ transaction_history = <<>>
    /\ eligibility = NoEligibility
    /\ swap_results = <<>>
    /\ calls = <<>>
    /\ data = <<>>

\* one scheduled matchup of a remaining week with its two hypothetical scores
ProjectGame(team1, score1, team2, score2, split) ==
    /\ pc = "project"
    /\ week < MaxScenarioGames
    /\ team1 < team2
    /\ projected_standings' =
          [projected_standings EXCEPT
              ![team1] = AfterGame(@, score1, score2, split),
              ![team2] = AfterGame(@, score2, score1, split)]
    /\ week' = week + 1
    /\ calls' = Append(calls, CallRecord("matchup", <<team1, score1, team2, score2>>,
                                         projected_standings'))
    /\ UNCHANGED <<matchups_df, pc, current_week, total_teams, team_dict, results_df,
                   warnings, keeperVars, swap_results, data>>

\* app.py 1381-1384: a remaining week without schedule data puts no scores into
\* scenario_scores, and the projector skips it
SkipWeek ==
    /\ pc = "project"
    /\ week < MaxScenarioGames
    /\ week' = week + 1
    /\ calls' = Append(calls, CallRecord("skipped", week + 1, projected_standings))
    /\ UNCHANGED <<matchups_df, pc, current_week, total_teams, team_dict, results_df,
                   warnings, keeperVars, simVars, data>>

\* all remaining weeks are processed: rank the teams and assign the seeds
AssignSeeds ==
    /\ pc = "project"
    /\ \E ranking \in Rankings(projected_standings) :
          projected_standings' = Seeded(projected_standings, ranking)
    /\ pc' = "seeded"
    /\ UNCHANGED <<matchups_df, oiwpVars, keeperVars, swap_results, calls, data>>

NextProjector ==
    \/ \E team1 \in Teams, team2 \in Teams, score1 \in Points, score2 \in Points,
          split \in BOOLEAN : ProjectGame(team1, score1, team2, score2, split)
    \/ SkipWeek
    \/ AssignSeeds

SpecProjector == InitProjector /\ [][NextProjector]_vars

\* C18: the seeds are the numbers 1..N, one per team; a team with more projected
\* wins has a lower seed number, and of two teams with equal projected wins the
\* one with more projected points has the lower seed number.
C18_SeedOrder ==
    pc = "seeded" =>
        LET rows == { projected_standings[i] : i \in DOMAIN projected_standings }
        IN  /\ { r.seed : r \in rows } = 1..Cardinality(Teams)
            /\ { r.team_name : r \in rows } = Teams
            /\ Cardinality(rows) = Cardinality(Teams)
            /\ \A a, b \in rows :
                  /\ FracLt(b.projected_wins, a.projected_wins) => a.seed < b.seed
                  /\ (/\ FracEq(a.projected_wins, b.projected_wins)
                      /\ b.projected_points < a.projected_points) => a.seed < b.seed

\* C18 witness: seeds were assigned after two hypothetical games; seed 1 has more
\* wins but fewer points than seed 2, and seeds 2 and 3 have equal wins and
\* different points.
C18_Witness ==
    /\ pc = "seeded"
    /\ week = 2
    /\ FracLt(projected_standings[2].projected_wins, projected_standings[1].projected_wins)
    /\ projected_standings[1].projected_points < projected_standings[2].projected_points
    /\ FracEq(projected_standings[2].projected_wins, projected_standings[3].projected_wins)
    /\ projected_standings[3].projected_points < projected_standings[2].projected_points

-----------------------------------------------------------------------------
(* Properties of the schedule-swap simulator: weeks compared *)

\* the weeks in which both teams have a record in the ledger
WeeksOfBoth(df, x, y) ==
    { w \in Weeks :
        /\ \E i \in Rows(df) : df[i].week = w /\ df[i].team_name = x
        /\ \E i \in Rows(df) : df[i].week = w /\ df[i].team_name = y }

\* C19: in every schedule-swap row of a pair (X, Y), wins + losses is the number
\* of weeks compared (each week counts 1: a win, a loss, or half of each), and,
\* when at least one week was compared, win_pct = wins / (wins + losses) * 100.
C19_SwapWeeks ==
    pc = "swapped" =>
        \A r \in swap_results :
            LET n == Cardinality(WeeksOfBoth(matchups_df, r.team, r.schedule_from))
            IN  /\ FracEq(FracAdd(r.wins, r.losses), Frac(n, 1))
                /\ n > 0 => /\ r.wins[2] = r.losses[2]
                            /\ r.win_pct[1] * (r.wins[1] + r.losses[1])
                                 = 100 * r.wins[1] * r.win_pct[2]

\* C19 witness: in a week with two games a team tied with the opponent of a team
\* of the other game, so that its row on that schedule has wins = losses = 0.5.
C19_Witness ==
    /\ pc = "swapped"
    /\ \E r \in swap_results :
          /\ r.team /= r.schedule_from
          /\ \E w \in Weeks :
                /\ HasRecord(matchups_df, r.schedule_from, w)
                /\ ScheduleOpponent(matchups_df, r.schedule_from, w) /= r.team
          /\ Cardinality(WeeksOfBoth(matchups_df, r.team, r.schedule_from)) = 1
          /\ r.wins = Frac(1, 2)
          /\ r.losses = Frac(1, 2)

-----------------------------------------------------------------------------
(* Repeated and interleaved calls of the engines on the same inputs *)

\* draft picks and transactions loaded at most before repeated analyzer calls
MaxRepeatRecords == 2

\* the caller calls the analyzer again (app.py 455-460 calls analyze_roster of
\* one analyzer once per team)
KeeperCallAgain ==
    /\ pc = "analyzed"
    /\ Len(calls) < MaxCalls
    /\ pc' = "load"
    /\ UNCHANGED <<matchups_df, oiwpVars, keeperVars, simVars, calls, data>>

\* either a ledger is loaded and calculate_oiwp_stats is called on it, or an
\* analyzer of GO_BACK_YEARS years is built and its methods are called
InitRepeat == InitOIWP \/ InitKeeper

NextRepeat ==
    \/ /\ draft_history = <<>>
       /\ NextOIWPRepeat
    \/ /\ draft_history /= <<>>
       /\ NumRecords < MaxRepeatRecords
       /\ \E i \in 1..GO_BACK_YEARS : \E pick \in PickOptions("P") : LoadDraftPick(i, pick)
    \/ /\ draft_history /= <<>>
       /\ NumRecords < MaxRepeatRecords
       /\ \E i \in 1..GO_BACK_YEARS : \E tr \in TransactionOptions("P") : LoadTransaction(i, tr)
    \/ /\ draft_history /= <<>>
       /\ \E name \in Players : AnalyzePlayerCall(name)
    \/ /\ draft_history /= <<>>
       /\ \E roster \in Rosters : AnalyzeRosterCall(roster)
    \/ KeeperCallAgain

SpecRepeat == InitRepeat /\ [][NextRepeat]_vars

\* the rows of a table, whatever their order
RowSet(table) == { table[i] : i \in DOMAIN table }

\* two results of calculate_oiwp_stats are equal up to the order the sort gives
\* to rows of equal oiwp
SameOiwpOutcome(a, b) ==
    /\ Len(a.results_df) = Len(b.results_df)
    /\ RowSet(a.results_df) = RowSet(b.results_df)
    /\ \A i \in DOMAIN a.results_df : FracEq(a.results_df[i].oiwp, b.results_df[i].oiwp)
    /\ a.warnings = b.warnings

\* two results of analyze_player are equal; the draft side never differs, and the
\* whole record can differ only where the sort of transactions with equal
\* timestamps gave another cleared_waivers list
SameEligibility(a, b) ==
    /\ a.status = b.status
    /\ a.status = "returned" =>
          /\ a.drafted_history = b.drafted_history
          /\ a.kept_history = b.kept_history
          /\ a.last_cost = b.last_cost
          /\ a.cleared_waivers = b.cleared_waivers => a = b

\* the same for two results of analyze_roster, row by row
SameRosterTable(a, b) ==
    /\ a.status = b.status
    /\ a.status = "returned" =>
          /\ Len(a.rows) = Len(b.rows)
          /\ \A i \in DOMAIN a.rows :
                /\ a.rows[i].player_name = b.rows[i].player_name
                /\ a.rows[i].last_cost = b.rows[i].last_cost
                /\ a.rows[i].history = b.rows[i].history => a.rows[i] = b.rows[i]

SameResult(fn, a, b) ==
    CASE fn = "calculate_oiwp_stats" -> SameOiwpOutcome(a, b)
      [] fn = "analyze_player" -> SameEligibility(a, b)
      [] fn = "analyze_roster" -> SameRosterTable(a, b)

\* a step of a call, or any step after the first call has returned
DuringCalls == calls /= <<>> \/ calls' /= calls \/ pc \in {"oiwp", "done", "analyzed"}

-----------------------------------------------------------------------------
(* espn.py: _extract_matchups and get_matchups on the schedule of the API *)

\* one side of a game as the API gives it: absent, or a dict with teamId and,
\* unless it is left out, totalPoints
Side(teamId, totalPoints) == << [teamId |-> teamId, totalPoints |-> totalPoints] >>
SideWithoutPoints(teamId) == << [teamId |-> teamId] >>

\* the sides and games the schedule is drawn from
ApiPoints == {0, 1}
AwayOptions == { None, SideWithoutPoints(1) } \cup { Side(1, p) : p \in ApiPoints }
HomeOptions == { None } \cup { Side(2, p) : p \in ApiPoints }

Game(period, away, home) == [matchupPeriodId |-> period, away |-> away, home |-> home]

\* side.get("totalPoints", 0)
TotalPoints(side) ==
    IF "totalPoints" \in DOMAIN side[1] THEN side[1].totalPoints ELSE 0

\* if away_team and home_team: both sides are present
BothSides(game) == game.away /= None /\ game.home /= None

\* a variant of ExtractMatchups without the test game_week != week
RECURSIVE ExtractMatchups_AnyWeek(_, _)
ExtractMatchups_AnyWeek(schedule, w) ==
    IF schedule = <<>> THEN <<>>
    ELSE LET game == Head(schedule)
         IN  (IF BothSides(game)
              THEN GameRecords(game.matchupPeriodId,
                               game.away[1].teamId, TotalPoints(game.away),
                               game.home[1].teamId, TotalPoints(game.home))
              ELSE <<>>) \o ExtractMatchups_AnyWeek(Tail(schedule), w)

\* _extract_matchups(data, week)
RECURSIVE ExtractMatchups(_, _)
ExtractMatchups(schedule, w) ==
    IF schedule = <<>> THEN <<>>
    ELSE LET game == Head(schedule)
         IN  (IF game.matchupPeriodId = w /\ BothSides(game)
              THEN GameRecords(game.matchupPeriodId,
                               game.away[1].teamId, TotalPoints(game.away),
                               game.home[1].teamId, TotalPoints(game.home))
              ELSE <<>>) \o ExtractMatchups(Tail(schedule), w)

\* a variant of HasScores that is true for every week
HasScores_Always(week_matchups) == TRUE

\* any(m["points"] > 0 for m in week_matchups)
HasScores(week_matchups) == \E i \in DOMAIN week_matchups : week_matchups[i].points > 0

\* team_names: team id -> team name, from get_teams
TeamNames == <<"Team A", "Team B", "Team C">>

\* df["team_name"].map(team_names), df["opponent_name"].map(team_names)
MapTeamNames(all_matchups) ==
    [ i \in DOMAIN all_matchups |->
        [all_matchups[i] EXCEPT !.team_name = TeamNames[@], !.opponent_name = TeamNames[@]] ]

InitESPN ==
    /\ data = <<>>
    /\ pc = "api"
    /\ matchups_df = <<>>
    /\ current_week = 0
    /\ total_teams = 0
    /\ team_dict = <<>>
    /\ week = 0
    /\ results_df = <<>>
    /\ warnings = {}
    /\ draft_history = <<>>
    /\ transaction_history = <<>>
    /\ eligibility = NoEligibility
    /\ swap_results = <<>>
    /\ projected_standings = <<>>
    /\ calls = <<>>

\* the league's schedule at the API gets one more game
ApiGame(game) ==
    /\ pc = "api"
    /\ Len(data) < MaxGames
    /\ data' = Append(data, game)
    /\ UNCHANGED <<matchups_df, pc, oiwpVars, keeperVars, simVars, calls>>

\* _extract_matchups(data, w)
ExtractMatchupsCall(w) ==
    /\ pc = "api"
    /\ matchups_df' = ExtractMatchups(data, w)
    /\ week' = w
    /\ pc' = "extracted"
    /\ UNCHANGED <<current_week, total_teams, team_dict, results_df, warnings,
                   keeperVars, simVars, calls, data>>

\* get_matchups(), lines 177-189: current week, weeks_to_fetch = 1..current_week
GetMatchupsStart(cw) ==
    /\ pc = "api"
    /\ current_week' = cw
    /\ week' = 1
    /\ matchups_df' = <<>>
    /\ pc' = "fetch"
    /\ UNCHANGED <<total_teams, team_dict, results_df, warnings,
                   keeperVars, simVars, calls, data>>

\* get_matchups(), lines 191-210: the request of one week; a response other than
\* 200 skips the week, and a week without a positive score is left out
FetchWeek(status_code) ==
    /\ pc = "fetch"
    /\ week <= current_week
    /\ LET week_matchups == ExtractMatchups(data, week)
       IN  matchups_df' = IF status_code = 200 /\ HasScores(week_matchups)
                          THEN matchups_df \o week_matchups
                          ELSE matchups_df
    /\ calls' = Append(calls, CallRecord("requests.get", week, status_code))
    /\ week' = week + 1
    /\ UNCHANGED <<pc, current_week, total_teams, team_dict, results_df, warnings,
                   keeperVars, simVars, data>>

\* get_matchups(), lines 212-222: the table with the team ids mapped to names
GetMatchupsReturn ==
    /\ pc = "fetch"
    /\ week > current_week
    /\ matchups_df' = MapTeamNames(matchups_df)
    /\ pc' = "fetched"
    /\ UNCHANGED <<current_week, total_teams, team_dict, week, results_df, warnings,
                   keeperVars, simVars, calls, data>>

NextESPN ==
    \/ \E w \in Weeks, away \in AwayOptions, home \in HomeOptions : ApiGame(Game(w, away, home))
    \/ \E w \in Weeks : ExtractMatchupsCall(w)
    \/ \E cw \in Weeks : GetMatchupsStart(cw)
    \/ \E status_code \in {200, 500} : FetchWeek(status_code)
    \/ GetMatchupsReturn

SpecESPN == InitESPN /\ [][NextESPN]_vars

-----------------------------------------------------------------------------
(* Properties of the ESPN client *)

\* the games of the schedule that belong to week w and have both sides
GamesOfWeek(w) ==
    { i \in DOMAIN data :
        data[i].matchupPeriodId = w /\ data[i].away /= None /\ data[i].home /= None }

\* C21: every game of the requested week with both a home and an away side
\* yields exactly two records, (week, away, home) and (week, home, away) with
\* points and opponent_points swapped, in schedule order; other games yield
\* none; so the records satisfy the mirror-record invariant.
C21_MirrorRecords ==
    pc = "extracted" =>
        LET games == GamesOfWeek(week)
            rank(i) == Cardinality({ j \in games : j <= i })
        IN  /\ Len(matchups_df) = 2 * Cardinality(games)
            /\ \A i \in games :
                  LET a == data[i].away
                      h == data[i].home
                  IN  /\ matchups_df[2 * rank(i) - 1] =
                            MatchupRecord(week, a[1].teamId, TotalPoints(a),
                                          h[1].teamId, TotalPoints(h))
                      /\ matchups_df[2 * rank(i)] =
                            MatchupRecord(week, h[1].teamId, TotalPoints(h),
                                          a[1].teamId, TotalPoints(a))
            /\ MirrorInvariant(matchups_df)

\* C21 witness: the records of a week were extracted from a schedule that holds a
\* game of that week with different scores and a complete game of another week.
C21_Witness ==
    /\ pc = "extracted"
    /\ Len(matchups_df) = 2
    /\ matchups_df[1].points /= matchups_df[1].opponent_points
    /\ \E i \in DOMAIN data :
          data[i].matchupPeriodId /= week /\ data[i].away /= None /\ data[i].home /= None

\* the request of week w was answered with status 200
Succeeded(w) ==
    \E i \in DOMAIN calls :
        calls[i].fn = "requests.get" /\ calls[i].args = w /\ calls[i].result = 200

\* some complete game of week w has a side with a positive score
ScoredInApi(w) ==
    \E i \in GamesOfWeek(w) : TotalPoints(data[i].away) > 0 \/ TotalPoints(data[i].home) > 0

\* C28: get_matchups() returns the records of exactly the weeks of
\* 1..current_week whose request succeeded and in which some extracted record has
\* points > 0; a week in which every score is zero contributes no record.
C28_FetchedWeeks ==
    pc = "fetched" =>
        LET included == { w \in 1..current_week : Succeeded(w) /\ ScoredInApi(w) }
        IN  /\ { matchups_df[i].week : i \in DOMAIN matchups_df } = included
            /\ \A w \in included :
                  SelectSeq(matchups_df, LAMBDA r : r.week = w)
                      = MapTeamNames(ExtractMatchups(data, w))

\* C28 witness: both weeks were requested with success; week 1 has a positive
\* score and is returned, week 2 has a complete game with only zero scores and
\* is not.
C28_Witness ==
    /\ pc = "fetched"
    /\ current_week = 2
    /\ Succeeded(1)
    /\ Succeeded(2)
    /\ GamesOfWeek(2) /= {}
    /\ ~ScoredInApi(2)
    /\ Len(matchups_df) = 2
    /\ matchups_df[1].week = 1
    /\ matchups_df[1].team_name = "Team A"

-----------------------------------------------------------------------------
(* The waiver rule with transactions at the edge of the waiver window *)

\* transaction times around the waiver window: the same instant, exactly seven
\* days later, one millisecond more than seven days later
WindowTimestamps == {0, DROP_TO_PICKUP, DROP_TO_PICKUP + 1}

WindowTransactions(name) ==
    IF name = "P"
    THEN { Transaction(name, ty, ts) : ty \in TransactionTypes, ts \in WindowTimestamps }
    ELSE { Transaction(name, "ADD", 0) }

\* transactions are loaded into an analyzer without draft picks, then a player is analysed
NextWaivers ==
    \/ \E i \in 1..GO_BACK_YEARS, name \in Players : \E tr \in WindowTransactions(name) :
          LoadTransaction(i, tr)
    \/ \E name \in Players : AnalyzePlayerCall(name)

SpecWaivers == InitKeeper /\ [][NextWaivers]_vars

\* the analysed player's transactions of year i
YearTransactions(i) == OfPlayer(transaction_history[i], eligibility.player_name)

\* the list, ordered newest to oldest, contains an ADD, or a WAIVER followed by a
\* transaction more than seven days older
ContainsClearance(sorted) ==
    \/ \E j \in DOMAIN sorted : sorted[j].type = "ADD"
    \/ \E j \in DOMAIN sorted :
          /\ sorted[j].type = "WAIVER"
          /\ j + 1 \in DOMAIN sorted
          /\ sorted[j].timestamp - sorted[j + 1].timestamp > 604800000

\* C22: cleared_waivers[i] is true iff the player's transactions of year i,
\* ordered newest to oldest (in the order the sort gave them), contain an ADD or
\* a WAIVER whose next-older transaction is more than 7 days (604800000 ms)
\* earlier; it is false without transactions, when no WAIVER is more than 7 days
\* after another transaction (a gap of exactly 7 days), and when the only WAIVER
\* is the oldest transaction.
C22_ClearedWaivers ==
    Analyzed =>
        \A i \in 1..GO_BACK_YEARS :
            LET trans == YearTransactions(i)
                noAdd == \A j \in DOMAIN trans : trans[j].type /= "ADD"
                waivers == { j \in DOMAIN trans : trans[j].type = "WAIVER" }
            IN  /\ \E sorted \in SortedNewestFirst(trans) :
                      eligibility.cleared_waivers[i] = ContainsClearance(sorted)
                /\ trans = <<>> => ~eligibility.cleared_waivers[i]
                /\ (noAdd /\ \A j \in waivers, k \in DOMAIN trans :
                                 trans[j].timestamp - trans[k].timestamp <= 604800000)
                      => ~eligibility.cleared_waivers[i]
                /\ (noAdd /\ Cardinality(waivers) = 1
                          /\ \A j \in waivers, k \in DOMAIN trans :
                                 trans[k].timestamp >= trans[j].timestamp)
                      => ~eligibility.cleared_waivers[i]

\* C22 witness: the analysed player has, in one year, a WAIVER exactly seven
\* days after a DROP (not cleared), and in another year an ADD (cleared).
C22_Witness ==
    /\ Analyzed
    /\ eligibility.player_name = "P"
    /\ \E i, k \in 1..GO_BACK_YEARS :
          /\ i /= k
          /\ YearTransactions(i) \in SortedNewestFirst(
                << Transaction("P", "DROP", 0), Transaction("P", "WAIVER", DROP_TO_PICKUP) >>)
          /\ ~eligibility.cleared_waivers[i]
          /\ YearTransactions(k) = << Transaction("P", "ADD", 0) >>
          /\ eligibility.cleared_waivers[k]

-----------------------------------------------------------------------------
(* calculate_oiwp_stats and the weeks without scores *)

\* the weeks that have a record with a non-zero score
NonZeroWeeks == { matchups_df[i].week : i \in { j \in Rows(matchups_df) : matchups_df[j].points /= 0 } }

\* the ledger without the records of the other weeks
ScoredLedger == SelectSeq(matchups_df, LAMBDA r : r.week \in NonZeroWeeks)

\* the all-play wins of team t in week w of the scored ledger
ScoredWeekWins(t, w) ==
    LET week_scores == WeekScores(ScoredLedger, w)
    IN  IF t \in DOMAIN week_scores THEN WeekWins(week_scores, t) ELSE 0

-----------------------------------------------------------------------------
(* The predicted record *)

\* C24: for every team of the table, with games_played = wins + losses,
\* predicted_wins is within one half of oiwp * games_played (the nearest integer),
\* predicted_losses = games_played - predicted_wins and schedule_wins = wins -
\* predicted_wins; so 0 <= predicted_wins <= games_played and the predicted
\* record has as many games as the actual record.
C24_PredictedRecord ==
    Returned =>
        \A i \in DOMAIN results_df :
            LET r == results_df[i]
                games_played == r.wins + r.losses
            IN  /\ 2 * Abs(r.predicted_wins * r.oiwp[2] - r.oiwp[1] * games_played) <= r.oiwp[2]
                /\ r.predicted_losses = games_played - r.predicted_wins
                /\ r.schedule_wins = r.wins - r.predicted_wins
                /\ 0 <= r.predicted_wins
                /\ r.predicted_wins <= games_played
                /\ r.predicted_wins + r.predicted_losses = r.wins + r.losses

\* C24 witness: the table has a team whose oiwp * games_played is not an integer,
\* and a team with a tie, whose games_played is less than its number of records.
C24_Witness ==
    /\ Returned
    /\ \E i \in DOMAIN results_df :
          LET r == results_df[i]
          IN  (r.oiwp[1] * (r.wins + r.losses)) % r.oiwp[2] /= 0
    /\ \E i \in DOMAIN results_df :
          LET r == results_df[i]
          IN  r.wins + r.losses
                < Cardinality({ j \in Rows(matchups_df) : matchups_df[j].team_name = r.team_name })

-----------------------------------------------------------------------------
(* _validate_oiwp_results on an arbitrary result table *)

\* the rows a table has at most
MaxRows == 2

\* wp and oiwp values below, inside, at the edge of and above [0, 1]; luck values
\* below, inside and above [-1, 1]
RateValues == { Frac(-1, 2), Frac(1, 2), Frac(1, 1), Frac(3, 2) }
LuckValues == { Frac(-3, 2), Frac(0, 1), Frac(1, 2), Frac(3, 2) }

StatsRow(wp, oiwp, luck) == [wp |-> wp, oiwp |-> oiwp, luck |-> luck]

InitValidate ==
    /\ results_df = <<>>
    /\ warnings = {}
    /\ pc = "table"
    /\ matchups_df = <<>>
    /\ current_week = 0
    /\ total_teams = 0
    /\ team_dict = <<>>
    /\ week = 0
    /\ draft_history = <<>>
    /\ transaction_history = <<>>
    /\ eligibility = NoEligibility
    /\ swap_results = <<>>
    /\ projected_standings = <<>>
    /\ calls = <<>>
    /\ data = <<>>

\* a row of the table under validation
TableRow(row) ==
    /\ pc = "table"
    /\ Len(results_df) < MaxRows
    /\ results_df' = Append(results_df, row)
    /\ UNCHANGED <<matchups_df, pc, current_week, total_teams, team_dict, week, warnings,
                   keeperVars, simVars, calls, data>>

\* _validate_oiwp_results(results_df)
ValidateCall ==
    /\ pc = "table"
    /\ warnings' = ValidateOiwpResults(results_df)
    /\ pc' = "validated"
    /\ UNCHANGED <<matchups_df, current_week, total_teams, team_dict, week, results_df,
                   keeperVars, simVars, calls, data>>

NextValidate ==
    \/ \E wp \in RateValues, oiwp \in RateValues, luck \in LuckValues :
          TableRow(StatsRow(wp, oiwp, luck))
    \/ ValidateCall

SpecValidate == InitValidate /\ [][NextValidate]_vars

\* twice the sum of a column whose values are multiples of one half
TwiceSum(col) ==
    SumSeq([ i \in DOMAIN results_df |-> (2 * results_df[i][col][1]) \div results_df[i][col][2] ])

\* some value of the column is below lo or above hi
SomeOutside(col, lo, hi) ==
    \E i \in DOMAIN results_df :
        LET v == results_df[i][col]
        IN  v[1] < lo * v[2] \/ v[1] > hi * v[2]

\* C25: on a non-empty table the validator warns about the range of a column
\* exactly when some wp or oiwp lies outside [0, 1] (some luck outside [-1, 1]),
\* about mean WP exactly when |mean(wp) - 0.5| > 0.01, about mean OIWP exactly
\* when |mean(oiwp) - 0.5| > 0.01, and about luck exactly when |sum(luck)| >
\* 0.01 * number of teams.
C25_WarnsExactlyWhen ==
    (pc = "validated" /\ results_df /= <<>>) =>
        LET n == Len(results_df)
        IN  /\ ("Invalid WP values" \in warnings) <=> SomeOutside("wp", 0, 1)
            /\ ("Invalid OIWP values" \in warnings) <=> SomeOutside("oiwp", 0, 1)
            /\ ("Invalid luck values" \in warnings) <=> SomeOutside("luck", -1, 1)
            /\ ("Mean WP" \in warnings) <=> (100 * Abs(TwiceSum("wp") - n) > 2 * n)
            /\ ("Mean OIWP" \in warnings) <=> (100 * Abs(TwiceSum("oiwp") - n) > 2 * n)
            /\ ("Sum of luck" \in warnings) <=> (100 * Abs(TwiceSum("luck")) > 2 * n)

\* C25 witness: a table of two rows was validated whose oiwp values are out of
\* range with mean 0.5, whose wp values are in range with a mean off 0.5, and
\* whose luck values are out of range with sum 0: exactly the warnings about
\* the oiwp range, the luck range and mean WP were produced.
C25_Witness ==
    /\ pc = "validated"
    /\ Len(results_df) = 2
    /\ warnings = {"Invalid OIWP values", "Invalid luck values", "Mean WP"}

-----------------------------------------------------------------------------
(* analyze_roster row by row *)

\* C26: analyze_roster returns one record per roster row, in roster order, and
\* the years_kept, years_remaining, eligible and keeper_cost of each record are
\* what analyze_player returns for the player name of the row, whatever the
\* other rows, the team name and the position are.
C26_RosterRows ==
    (pc = "analyzed" /\ LastCall.fn = "analyze_roster" /\ eligibility.status = "returned") =>
        LET roster == LastCall.args
            rows == eligibility.rows
        IN  /\ Len(rows) = Len(roster)
            /\ \A i \in DOMAIN roster :
                  /\ rows[i].player_name = roster[i].name
                  /\ \A team_name \in {"Team", "Other"}, position \in {"QB", "RB", "WR"} :
                        \E e \in PlayerOutcomes(draft_history, transaction_history,
                                                RosterEntry(roster[i].name, position), team_name) :
                            /\ e.status = "returned"
                            /\ rows[i].years_kept = e.years_kept
                            /\ rows[i].years_remaining = e.years_remaining
                            /\ rows[i].eligible = e.eligible
                            /\ rows[i].keeper_cost = e.current_cost

\* C26 witness: a roster of two rows was analysed; the second row is a player
\* kept for one year, the first a player never kept, at a different cost.
C26_Witness ==
    /\ pc = "analyzed"
    /\ LastCall.fn = "analyze_roster"
    /\ eligibility.status = "returned"
    /\ Len(eligibility.rows) = 2
    /\ eligibility.rows[1].player_name = "Q"
    /\ eligibility.rows[1].years_kept = 0
    /\ eligibility.rows[2].player_name = "P"
    /\ eligibility.rows[2].years_kept = 1
    /\ eligibility.rows[2].keeper_cost /= eligibility.rows[1].keeper_cost

-----------------------------------------------------------------------------
(* Properties of the standings projector: what one matchup adds *)

\* twice the wins and twice the losses of all teams together
TotalWins(standings) == SumOver([ t \in DOMAIN standings |-> standings[t].projected_wins[1] ],
                                DOMAIN standings)
TotalLosses(standings) == SumOver([ t \in DOMAIN standings |-> standings[t].projected_losses[1] ],
                                  DOMAIN standings)

\* team t gained exactly won wins, lost losses (in halves) and points points
Gained(t, won, lost, points) ==
    /\ projected_standings'[t].projected_wins[1] = projected_standings[t].projected_wins[1] + won
    /\ projected_standings'[t].projected_losses[1] = projected_standings[t].projected_losses[1] + lost
    /\ projected_standings'[t].projected_points = projected_standings[t].projected_points + points

\* C27: a scheduled matchup with both hypothetical scores gives one win to the
\* higher scorer and one loss to the lower scorer and adds each team's score to
\* its points_for, the other teams keep their rows, and the wins added over all
\* teams equal the losses added; a week with missing schedule data changes
\* nothing.
C27_MatchupAwards ==
    [][ (pc = "project" /\ pc' = "project") =>
          LET c == calls'[Len(calls')]
          IN  IF c.fn = "skipped" THEN projected_standings' = projected_standings
              ELSE LET team1 == c.args[1]
                       score1 == c.args[2]
                       team2 == c.args[3]
                       score2 == c.args[4]
                   IN  /\ score1 > score2 => Gained(team1, 2, 0, score1) /\ Gained(team2, 0, 2, score2)
                       /\ score1 < score2 => Gained(team1, 0, 2, score1) /\ Gained(team2, 2, 0, score2)
                       /\ projected_standings'[team1].projected_points
                             = projected_standings[team1].projected_points + score1
                       /\ projected_standings'[team2].projected_points
                             = projected_standings[team2].projected_points + score2
                       /\ \A t \in Teams \ {team1, team2} :
                             projected_standings'[t] = projected_standings[t]
                       /\ TotalWins(projected_standings') - TotalWins(projected_standings)
                             = TotalLosses(projected_standings') - TotalLosses(projected_standings)
      ]_vars

\* C27 witness: the first week was skipped for lack of schedule data and the
\* second had a matchup with a winner, whose row holds the added win, as the
\* loser's holds the added loss.
C27_Witness ==
    /\ pc = "project"
    /\ Len(calls) = 2
    /\ calls[1].fn = "skipped"
    /\ calls[2].fn = "matchup"
    /\ calls[2].args[2] > calls[2].args[4]
    /\ projected_standings[calls[2].args[1]].projected_wins[1]
          = calls[1].result[calls[2].args[1]].projected_wins[1] + 2
    /\ projected_standings[calls[2].args[3]].projected_losses[1]
          = calls[1].result[calls[2].args[3]].projected_losses[1] + 2

-----------------------------------------------------------------------------
(* app.py, Schedule Impact tab: the record shown for a schedule-swap row *)

\* outright wins, outright losses and ties a displayed row stands for, at most each
MaxTally == 3

\* lambda x: int(x), for a non-negative number of halves
IntOf(x) == x[1] \div x[2]

\* lambda x: 1 if (x % 1) == 0.5 else 0
TiesOf(x) == IF 2 * (x[1] % x[2]) = x[2] THEN 1 ELSE 0

\* format_record: W-L-T when the ties column is positive, else W-L
FormatRecord(wins_int, losses_int, ties) ==
    IF ties > 0 THEN <<wins_int, losses_int, ties>> ELSE <<wins_int, losses_int>>

\* the display columns of one row of team_results
DisplayRow(row) ==
    [wins_int |-> IntOf(row.wins),
     losses_int |-> IntOf(row.losses),
     ties |-> TiesOf(row.wins),
     record |-> FormatRecord(IntOf(row.wins), IntOf(row.losses), TiesOf(row.wins))]

InitDisplay ==
    /\ swap_results = <<>>
    /\ results_df = <<>>
    /\ pc = "tally"
    /\ matchups_df = <<>>
    /\ current_week = 0
    /\ total_teams = 0
    /\ team_dict = <<>>
    /\ week = 0
    /\ warnings = {}
    /\ draft_history = <<>>
    /\ transaction_history = <<>>
    /\ eligibility = NoEligibility
    /\ projected_standings = <<>>
    /\ calls = <<>>
    /\ data = <<>>

\* a row of swap_results that stands for w outright wins, l outright losses and
\* t ties: a tie is half a win and half a loss
TallyRow(w, l, t) ==
    /\ pc = "tally"
    /\ swap_results' = << [wins |-> Frac(2 * w + t, 2), losses |-> Frac(2 * l + t, 2),
                           outright_wins |-> w, outright_losses |-> l, tied |-> t] >>
    /\ pc' = "selected"
    /\ UNCHANGED <<matchups_df, oiwpVars, keeperVars, projected_standings, calls, data>>

\* lines 1159-1176: the display columns are computed for the rows of the team
DisplayRecords ==
    /\ pc = "selected"
    /\ results_df' = [ i \in DOMAIN swap_results |-> DisplayRow(swap_results[i]) ]
    /\ pc' = "displayed"
    /\ UNCHANGED <<matchups_df, current_week, total_teams, team_dict, week, warnings,
                   keeperVars, simVars, calls, data>>

NextDisplay ==
    \/ \E w \in 0..MaxTally, l \in 0..MaxTally, t \in 0..MaxTally : TallyRow(w, l, t)
    \/ DisplayRecords

SpecDisplay == InitDisplay /\ [][NextDisplay]_vars

\* C29: the record shown for a row that stands for w outright wins, l outright
\* losses and t ties shows exactly w wins, l losses and t ties, so the numbers
\* shown sum to the number of weeks compared.
C29_DisplayedRecord ==
    pc = "displayed" =>
        LET row == swap_results[1]
            shown == results_df[1]
        IN  /\ shown.wins_int = row.outright_wins
            /\ shown.losses_int = row.outright_losses
            /\ shown.ties = row.tied
            /\ shown.record = FormatRecord(row.outright_wins, row.outright_losses, row.tied)
            /\ shown.wins_int + shown.losses_int + shown.ties
                  = row.outright_wins + row.outright_losses + row.tied

-----------------------------------------------------------------------------
(* Properties of the keeper engine: ranges *)

\* C30: with GO_BACK_YEARS years of history analyze_player returns years_kept and
\* years_remaining between 0 and MAX_KEEP_YEARS, and whenever the cost increment
\* is looked up (the player is eligible), years_kept + 1 is a key of
\* KEEPER_YEAR_INCREMENTS: the fallback to the MAX_KEEP_YEARS bucket is not taken.
C30_RangesAndKeys ==
    (/\ pc = "analyzed"
     /\ Len(draft_history) = GO_BACK_YEARS
     /\ Len(transaction_history) = GO_BACK_YEARS) =>
        /\ eligibility.status = "returned"
        /\ 0 <= eligibility.years_kept
        /\ eligibility.years_kept <= MAX_KEEP_YEARS
        /\ 0 <= eligibility.years_remaining
        /\ eligibility.years_remaining <= MAX_KEEP_YEARS
        /\ eligibility.eligible => eligibility.years_kept + 1 \in {1, 2, 3}
        /\ eligibility.current_cost /= 999 => eligibility.years_kept + 1 \in {1, 2, 3}

\* C30 witness: a player kept in the two newest years and not in the third has
\* been analysed; the increment of the third keeper year, the last key, was
\* looked up.
C30_Witness ==
    /\ Analyzed
    /\ eligibility.kept_history = <<TRUE, TRUE, FALSE>>
    /\ eligibility.years_kept = 2
    /\ eligibility.years_remaining = 1
    /\ eligibility.eligible
    /\ eligibility.current_cost = eligibility.last_cost[1] + 15

====
